---- MODULE Spec2Model ----
(***************************************************************************)
(* A model of multitask/modules.py: the AbstractModule base class (a       *)
(* template that creates a module's variables on its first call and        *)
(* reuses them afterwards), the Embeddding, TFHubElmoEmbedding,            *)
(* LstmEncoder and CachedElmoModule modules, their clone operations, the   *)
(* variable-scope queries and the recurrent cell factory.                  *)
(*                                                                         *)
(* The names base, utils and rnn_cell_utils used by the source are read    *)
(* as the definitions of the same file.                                    *)
(*                                                                         *)
(* Strings are sequences of tokens, so that concatenation, "/"-joined      *)
(* paths and prefix matching are computed, not assumed.  An optional       *)
(* Python value is <<>> for None and <<v>> for the value v.                *)
(***************************************************************************)
EXTENDS Integers, Sequences, FiniteSets, TLC

VARIABLES modules, store, usedScopes, clones, last

vars == <<modules, store, usedScopes, clones, last>>

(***************************************************************************)
(* Bounds                                                                  *)
(***************************************************************************)
MaxModules == 2
MaxScopes == 3
MaxLayers == 4
MaxResidual == 2

(***************************************************************************)
(* Python values                                                           *)
(***************************************************************************)
None == <<>>

Some(v) == <<v>>

IsNone(x) == x = <<>>

Val(x) == x[1]

\* the argument `name`: None, a string (token sequence s) or a non-string
NameNone == [k |-> "None", s |-> <<>>]

NameStr(s) == [k |-> "str", s |-> s]

NameOther == [k |-> "int", s |-> <<>>]

Ok == [err |-> "none", msg |-> "none"]

Raise(e, m) == [err |-> e, msg |-> m]

IsPrefix(p, s) == Len(p) <= Len(s) /\ SubSeq(s, 1, Len(p)) = p

Slash == <<"/">>

SuffixTok == <<"_1", "_2", "_3", "_4", "_5", "_6">>

CellTok == <<"cell_0", "cell_1", "cell_2", "cell_3", "cell_4", "cell_5">>

(***************************************************************************)
(* The variable store of the graph: the variables in creation order.       *)
(***************************************************************************)
VarNames(st) == {st[i].name : i \in 1..Len(st)}

\* the name of `name` inside the scope `scope`; the root scope is ""
Join(scope, name) == IF scope = <<>> THEN name ELSE scope \o Slash \o name

\* tf.get_variable(name, ...) inside variable scope `scope`
GetVariable(st, scope, name, reuse, trainable, shape) ==
  LET full == Join(scope, name)
  IN IF full \in VarNames(st)
     THEN IF reuse THEN [res |-> Ok, st |-> st]
          ELSE [res |-> Raise("ValueError", "variable_exists"), st |-> st]
     ELSE IF reuse
          THEN [res |-> Raise("ValueError", "variable_missing"), st |-> st]
          ELSE [res |-> Ok,
                st |-> Append(st, [name |-> full, trainable |-> trainable,
                                   shape |-> shape])]

\* the unique scope name tf.make_template(create_scope_now_=True) opens
RECURSIVE UniqueFrom(_, _, _)
UniqueFrom(prefix, used, idx) ==
  IF (prefix \o <<SuffixTok[idx]>>) \notin used \/ idx = Len(SuffixTok)
  THEN prefix \o <<SuffixTok[idx]>>
  ELSE UniqueFrom(prefix, used, idx + 1)

UniqueScope(prefix, used) ==
  IF prefix \notin used THEN prefix ELSE UniqueFrom(prefix, used, 1)

(***************************************************************************)
(* AbstractModule                                                          *)
(***************************************************************************)
ClassNameUpper(cls) ==
  CASE cls = "Embeddding" -> <<"EMBEDDDING">>
    [] cls = "TFHubElmoEmbedding" -> <<"TFHUBELMOEMBEDDING">>
    [] cls = "LstmEncoder" -> <<"LSTMENCODER">>
    [] cls = "CachedElmoModule" -> <<"CACHEDELMOMODULE">>
    [] OTHER -> <<"SUBCLASS">>

\* an instance on which AbstractModule.__init__ has not run
Bare(cls) ==
  [cls |-> cls, init_called |-> FALSE, original_name |-> <<>>,
   unique_name |-> <<>>, scope |-> <<>>, variables_created |-> FALSE,
   hp |-> [unset |-> TRUE], cell |-> None]

\* whether the instance attribute has been assigned
HasAttr(m, a) == a \in DOMAIN m.hp

\* AbstractModule.__init__(_sentinel, name)
AbstractModuleInit(cls, sentinel, name, used) ==
  IF ~IsNone(sentinel)
  THEN [res |-> Raise("ValueError", "named_arguments"), mod |-> Bare(cls),
        used |-> used]
  ELSE IF name.k # "None" /\ name.k # "str"
  THEN [res |-> Raise("TypeError", "name_not_string"), mod |-> Bare(cls),
        used |-> used]
  ELSE LET n == IF name.k = "None" THEN ClassNameUpper(cls) ELSE name.s
           sc == UniqueScope(n, used)
       IN [res |-> Ok,
           mod |-> [Bare(cls) EXCEPT !.init_called = TRUE,
                                     !.original_name = n,
                                     !.unique_name = sc,
                                     !.scope = sc],
           used |-> used \cup {sc}]

\* AbstractModule._check_init_called
CheckInitCalled(m) ==
  IF m.init_called THEN Ok
  ELSE Raise("NotImplementedError", "forgot_super")

(***************************************************************************)
(* utils                                                                   *)
(***************************************************************************)
\* an initializer that guards the square root but not the division
create_linear_initializer_unguarded(input_size) ==
  IF input_size < 0 THEN [res |-> Raise("ValueError", "math_domain"),
                          init |-> None]
  ELSE [res |-> Ok, init |-> Some(input_size)]

\* math.sqrt under 1 / ... : the input size is kept, the error is computed
create_linear_initializer(input_size) ==
  IF input_size < 0 THEN [res |-> Raise("ValueError", "math_domain"),
                          init |-> None]
  ELSE IF input_size = 0 THEN [res |-> Raise("ZeroDivisionError", "division"),
                               init |-> None]
  ELSE [res |-> Ok, init |-> Some(input_size)]

\* get_variable_scope_name applied to a module: its variable_scope's name
get_variable_scope_name(m) == m.scope

\* tf.get_collection(collection, scope): re.match(scope, item.name)
GetCollection(st, collection, pattern) ==
  SelectSeq(st, LAMBDA v : /\ (collection = "trainable" => v.trainable)
                           /\ IsPrefix(pattern, v.name))

\* the search pattern without the closing slash
get_variables_in_scope_open(st, m, collection) ==
  GetCollection(st, collection, get_variable_scope_name(m))

get_variables_in_scope(st, m, collection) ==
  LET scope_name == get_variable_scope_name(m)
      pattern == IF scope_name # <<>> THEN scope_name \o Slash
                 ELSE scope_name
  IN GetCollection(st, collection, pattern)

(***************************************************************************)
(* Embeddding                                                              *)
(***************************************************************************)
EmbedDimBound == 64

\* int(round(6.0 * sqrt(sqrt(vocab_size)))): the r with
\* 2r-1 <= 12 * vocab_size^(1/4) < 2r+1
RoundSixFourthRoot(v) ==
  CHOOSE r \in 0..EmbedDimBound :
    /\ (r = 0 \/ (2*r - 1) * (2*r - 1) * (2*r - 1) * (2*r - 1) <= 20736 * v)
    /\ 20736 * v < (2*r + 1) * (2*r + 1) * (2*r + 1) * (2*r + 1)

\* _embedding_dim(vocab_size); vocab_size is an optional integer
_embedding_dim(vocab_size) ==
  IF IsNone(vocab_size)
  \* "%g" % None
  THEN [res |-> Raise("TypeError", "format"), dim |-> None]
  ELSE IF Val(vocab_size) = 0 \/ Val(vocab_size) <= 0
  THEN [res |-> Raise("ValueError", "invalid_vocab_size"), dim |-> None]
  ELSE [res |-> Ok, dim |-> Some(RoundSixFourthRoot(Val(vocab_size)))]

\* Python truth value of an optional integer
Truthy(x) == ~IsNone(x) /\ Val(x) # 0

\* the conflict read as "all of them are given"
ExistingVocabConflictAll(vocab_size, embed_dim, existing_vocab) ==
  ~IsNone(existing_vocab) /\ ~IsNone(vocab_size) /\ ~IsNone(embed_dim)

\* existing_vocab is not None and not all(x is None for x in [vocab_size,
\* embed_dim])
ExistingVocabConflict(vocab_size, embed_dim, existing_vocab) ==
  ~IsNone(existing_vocab) /\ ~(IsNone(vocab_size) /\ IsNone(embed_dim))

\* Embeddding.__init__; existing_vocab is an optional shape
EmbedddingInit(vocab_size, embed_dim, existing_vocab, trainable, name, used) ==
  IF IsNone(vocab_size) /\ IsNone(existing_vocab)
  THEN [res |-> Raise("ValueError", "both_none"), mod |-> Bare("Embeddding"),
        used |-> used]
  ELSE IF ExistingVocabConflict(vocab_size, embed_dim, existing_vocab)
  THEN [res |-> Raise("ValueError", "existing_vocab_mixed"),
        mod |-> Bare("Embeddding"), used |-> used]
  ELSE
  LET base == AbstractModuleInit("Embeddding", None, name, used)
  IN IF base.res.err # "none" THEN base
     ELSE IF IsNone(existing_vocab) /\ ~Truthy(embed_dim)
             /\ ~HasAttr(base.mod, "vocab_size")
     \* embed_dim or _embedding_dim(self._vocab_size): the attribute is read
     \* before line 271 assigns it
     THEN [base EXCEPT !.res = Raise("AttributeError", "_vocab_size")]
     ELSE IF IsNone(existing_vocab) /\ ~Truthy(embed_dim)
             /\ _embedding_dim(base.mod.hp.vocab_size).res.err # "none"
     THEN [base EXCEPT !.res = _embedding_dim(base.mod.hp.vocab_size).res]
     ELSE IF ~IsNone(existing_vocab) /\ Len(Val(existing_vocab)) # 2
     THEN [base EXCEPT !.res = Raise("ValueError", "rank")]
     ELSE
     LET vs == IF IsNone(existing_vocab) THEN Val(vocab_size)
               ELSE Val(existing_vocab)[1]
         ed == IF ~IsNone(existing_vocab) THEN Val(existing_vocab)[2]
               ELSE IF Truthy(embed_dim) THEN Val(embed_dim)
               ELSE Val(_embedding_dim(base.mod.hp.vocab_size).dim)
         ini == create_linear_initializer(vs)
     IN IF ini.res.err # "none" THEN [base EXCEPT !.res = ini.res]
        ELSE [base EXCEPT !.mod.hp =
                [vocab_size |-> Some(vs), embed_dim |-> Some(ed),
                 existing_vocab |-> existing_vocab, trainable |-> trainable,
                 initializer |-> ini.init]]

\* Embeddding._clone
EmbedddingClone(m, name, used) ==
  EmbedddingInit(m.hp.vocab_size, m.hp.embed_dim, m.hp.existing_vocab,
                 m.hp.trainable, name, used)

\* Embeddding._build inside the template's scope
EmbedddingBuild(m, st, reuse) ==
  GetVariable(st, m.scope, <<"embeddings">>, reuse, m.hp.trainable,
              IF IsNone(m.hp.existing_vocab)
              THEN <<Val(m.hp.vocab_size), Val(m.hp.embed_dim)>>
              ELSE Val(m.hp.existing_vocab))

(***************************************************************************)
(* TFHubElmoEmbedding: the hub module keeps its own weights; the module    *)
(* creates no variable in its scope.                                       *)
(***************************************************************************)
TFHubElmoEmbeddingInit(trainable, name, used) ==
  LET base == AbstractModuleInit("TFHubElmoEmbedding", None, name, used)
  IN IF base.res.err # "none" THEN base
     ELSE [base EXCEPT !.mod.hp = [trainable |-> trainable,
                                   elmo |-> [trainable |-> trainable]]]

TFHubElmoEmbeddingClone(m, name, used) ==
  TFHubElmoEmbeddingInit(m.hp.trainable, name, used)

\* TFHubElmoEmbedding._build(tokens_input, tokens_length)
TFHubElmoEmbeddingBuild(m, st, reuse, dtype) ==
  IF dtype # "string"
  THEN [res |-> Raise("TypeError", "tokens_input"), st |-> st]
  ELSE [res |-> Ok, st |-> st]

(***************************************************************************)
(* CachedElmoModule                                                        *)
(***************************************************************************)
CachedElmoModuleInit(name, trainable, num_elements, used) ==
  LET base == AbstractModuleInit("CachedElmoModule", None, name, used)
      ini == create_linear_initializer(num_elements)
  IN IF base.res.err # "none" THEN base
     ELSE IF ini.res.err # "none" THEN [base EXCEPT !.res = ini.res]
     ELSE [base EXCEPT !.mod.hp = [trainable |-> trainable,
                                   num_elements |-> num_elements,
                                   initializer |-> ini.init]]

CachedElmoModuleClone(m, name, used) ==
  CachedElmoModuleInit(name, m.hp.trainable, m.hp.num_elements, used)

CachedElmoModuleBuild(m, st, reuse) ==
  GetVariable(st, m.scope, <<"weight">>, reuse, m.hp.trainable,
              <<1, m.hp.num_elements, 1, 1>>)

(***************************************************************************)
(* The recurrent cell factory.  A dropout rate is counted in tenths, so    *)
(* One stands for 1.0.  A cell is its base unit and the wrappers put       *)
(* around it, innermost first.                                             *)
(***************************************************************************)
One == 10

\* the last branch taken as the default unit instead of raising
UnitClassDefault(unit_type) ==
  CASE unit_type = "lstm" -> "basic_lstm_cell"
    [] unit_type = "gru" -> "gru_cell"
    [] unit_type = "layer_norm_lstm" -> "layer_norm_basic_lstm_cell"
    [] OTHER -> "lstm_cell"

UnitClass(unit_type) ==
  CASE unit_type = "lstm" -> "basic_lstm_cell"
    [] unit_type = "gru" -> "gru_cell"
    [] unit_type = "layer_norm_lstm" -> "layer_norm_basic_lstm_cell"
    [] unit_type = "classical_lstm" -> "lstm_cell"
    [] OTHER -> "unknown"

\* dropout kept in every mode
EffectiveDropoutAlways(dropout, mode) == dropout

\* dropout = dropout if mode == "train" else 0.0
EffectiveDropout(dropout, mode) == IF mode = "train" THEN dropout ELSE 0

\* _single_cell(unit_type, num_units, mode, dropout, residual_connection)
_single_cell(unit_type, num_units, mode, dropout, residual_connection) ==
  IF UnitClass(unit_type) = "unknown"
  THEN [res |-> Raise("ValueError", "unknown_unit_type"), cell |-> None]
  ELSE
  LET w1 == IF ~IsNone(dropout)
            THEN <<[w |-> "DropoutWrapper",
                    input_keep_prob |->
                      One - EffectiveDropout(Val(dropout), mode)]>>
            ELSE <<>>
      w2 == IF residual_connection
            THEN <<[w |-> "ResidualWrapper", input_keep_prob |-> One]>>
            ELSE <<>>
  IN [res |-> Ok,
      cell |-> Some([base |-> UnitClass(unit_type), num_units |-> num_units,
                     wrappers |-> w1 \o w2])]

\* the comparison off by one
ResidualAtStrict(i, num_layers, num_residual_layers) ==
  i > num_layers - num_residual_layers

\* residual_connection=(i >= num_layers - num_residual_layers)
ResidualAt(i, num_layers, num_residual_layers) ==
  i >= num_layers - num_residual_layers

\* the loop of _cell_list from index i on, cell_list being built so far
RECURSIVE CellLoop(_, _, _, _, _, _, _, _)
CellLoop(i, cell_list, unit_type, num_units, num_layers, mode, dropout, num_residual_layers) ==
  IF i >= num_layers THEN [res |-> Ok, cells |-> cell_list]
  ELSE LET c == _single_cell(unit_type, num_units, mode, dropout,
                             ResidualAt(i, num_layers, num_residual_layers))
       IN IF c.res.err # "none" THEN [res |-> c.res, cells |-> <<>>]
          ELSE CellLoop(i + 1, Append(cell_list, Val(c.cell)), unit_type,
                        num_units, num_layers, mode, dropout,
                        num_residual_layers)

\* _cell_list with the default single_cell_fn
_cell_list(unit_type, num_units, num_layers, mode, dropout, num_residual_layers) ==
  CellLoop(0, <<>>, unit_type, num_units, num_layers, mode, dropout,
           num_residual_layers)

\* a cell_wrapper argument: "None", "callable", "value" (a true value that
\* is not callable) or "empty" (a false value that is not callable)
WrapperTrue(cell_wrapper) == cell_wrapper \in {"callable", "value"}

WrapperCallable(cell_wrapper) == cell_wrapper = "callable"

\* create_rnn_cell(unit_type, num_units, num_layers, mode, dropout,
\*                 num_residual_layers, single_cell_fn=None, cell_wrapper)
create_rnn_cell(unit_type, num_units, num_layers, mode, dropout, num_residual_layers, cell_wrapper) ==
  LET cl == _cell_list(unit_type, num_units, num_layers, mode, dropout,
                       num_residual_layers)
  IN IF cl.res.err # "none" THEN [res |-> cl.res, cell |-> None]
     ELSE IF WrapperTrue(cell_wrapper) /\ ~WrapperCallable(cell_wrapper)
     THEN [res |-> Raise("TypeError", "cell_wrapper"), cell |-> None]
     ELSE IF Len(cl.cells) = 1
     THEN IF ~WrapperTrue(cell_wrapper)
          THEN [res |-> Ok, cell |-> Some([kind |-> "cell",
                                           cells |-> cl.cells])]
          ELSE [res |-> Ok, cell |-> Some([kind |-> "wrapped_cell",
                                           cells |-> cl.cells])]
     ELSE IF ~WrapperTrue(cell_wrapper)
          \* MultiRNNCell refuses an empty list of cells
          THEN IF Len(cl.cells) = 0
               THEN [res |-> Raise("ValueError", "no_cells"), cell |-> None]
               ELSE [res |-> Ok, cell |-> Some([kind |-> "MultiRNNCell",
                                                cells |-> cl.cells])]
          ELSE [res |-> Ok, cell |-> Some([kind |-> "wrapped_cells",
                                           cells |-> cl.cells])]

(***************************************************************************)
(* LstmEncoder                                                             *)
(***************************************************************************)
LstmEncoderInit(unit_type, num_units, num_layers, dropout_rate, num_residual_layers, scope, is_training, bidirectional, name, cell_wrapper, used) ==
  LET base == AbstractModuleInit("LstmEncoder", None, name, used)
  IN IF base.res.err # "none" THEN base
     ELSE [base EXCEPT !.mod.hp =
             [unit_type |-> unit_type, num_units |-> num_units,
              num_layers |-> num_layers, dropout_rate |-> dropout_rate,
              num_residual_layers |-> num_residual_layers,
              encoder_scope |-> scope, is_training |-> is_training,
              bidirectional |-> bidirectional,
              encoder_kargs |-> [cell_wrapper |-> cell_wrapper]]]

\* LstmEncoder._clone: scope=name
LstmEncoderClone(m, name, used) ==
  LstmEncoderInit(m.hp.unit_type, m.hp.num_units, m.hp.num_layers,
                  m.hp.dropout_rate, m.hp.num_residual_layers, name.s,
                  m.hp.is_training, m.hp.bidirectional, name,
                  m.hp.encoder_kargs.cell_wrapper, used)

\* the variables the rnn creates for one stack under the scope `under`
StackRequests(stack, under) ==
  [j \in 1..(2 * Len(stack.cells)) |->
     LET i == (j + 1) \div 2
         c == stack.cells[i]
         sc == IF stack.kind \in {"cell", "wrapped_cell"}
               THEN under \o Slash \o <<c.base>>
               ELSE under \o Slash \o <<"multi_rnn_cell">> \o Slash
                      \o <<CellTok[i]>> \o Slash \o <<c.base>>
     IN [scope |-> sc,
         name |-> IF j % 2 = 1 THEN <<"kernel">> ELSE <<"bias">>]]

RECURSIVE CreateAll(_, _, _, _)
CreateAll(st, reqs, reuse, k) ==
  IF k > Len(reqs) THEN [res |-> Ok, st |-> st]
  ELSE LET g == GetVariable(st, reqs[k].scope, reqs[k].name, reuse, TRUE,
                            <<>>)
       IN IF g.res.err # "none" THEN g
          ELSE CreateAll(g.st, reqs, reuse, k + 1)

\* the cell objects one call of create_rnn_cell constructs, numbered after
\* the `made` objects the build constructed before
NewObjects(stack, made) ==
  [kind |-> stack.kind, cells |-> stack.cells,
   ids |-> [j \in 1..Len(stack.cells) |-> made + j]]

\* the backward stack handed the forward stack's objects
BackwardCellShared(fw_cell, stack) == fw_cell

\* bw_cell = create_rnn_cell(...): a second call, after the forward one
BackwardCell(fw_cell, stack) == NewObjects(stack, Len(fw_cell.cells))

\* the sizes of the inputs: [batch, time, features], time_major=False
BatchSize == 2

MaxTime == 3

\* the outputs and the final state of one stack run over the inputs
RnnOutputs(m, dir) ==
  [parts |-> <<dir>>, shape |-> <<BatchSize, MaxTime, m.hp.num_units>>]

RnnState(stack, dir) == [dir |-> dir, ids |-> stack.ids]

\* array_ops.concat(axis=axis, values=<<a, b>>)
Concat(axis, a, b) ==
  [parts |-> a.parts \o b.parts,
   shape |-> [k \in 1..Len(a.shape) |->
                IF k = axis + 1 THEN a.shape[k] + b.shape[k]
                ELSE a.shape[k]]]

\* LstmEncoder._build
LstmEncoderBuild(m, st, reuse) ==
  LET mode == IF m.hp.is_training THEN "train" ELSE "inference"
      mk == create_rnn_cell(m.hp.unit_type, m.hp.num_units, m.hp.num_layers,
                            mode, m.hp.dropout_rate,
                            m.hp.num_residual_layers,
                            m.hp.encoder_kargs.cell_wrapper)
      top == Join(m.scope, m.hp.encoder_scope)
      failed(res) == [res |-> res, st |-> st, cell |-> None, ret |-> <<>>]
  IN IF m.hp.bidirectional
     THEN LET fw == mk
              bw == mk
          IN IF fw.res.err # "none" THEN failed(fw.res)
             ELSE IF bw.res.err # "none" THEN failed(bw.res)
             ELSE
             LET fw_cell == NewObjects(Val(fw.cell), 0)
                 bw_cell == BackwardCell(fw_cell, Val(bw.cell))
                 r == CreateAll(st,
                        StackRequests(fw_cell, top \o Slash \o <<"fw">>)
                          \o StackRequests(bw_cell, top \o Slash \o <<"bw">>),
                        reuse, 1)
             IN IF r.res.err # "none"
                THEN [res |-> r.res, st |-> r.st, cell |-> None,
                      ret |-> <<>>]
                ELSE [res |-> Ok, st |-> r.st,
                      cell |-> Some(<<fw_cell, bw_cell>>),
                      ret |-> [outputs |-> Concat(2, RnnOutputs(m, "fw"),
                                                  RnnOutputs(m, "bw")),
                               state |-> <<RnnState(fw_cell, "fw"),
                                           RnnState(bw_cell, "bw")>>]]
     ELSE IF mk.res.err # "none" THEN failed(mk.res)
     ELSE LET cell == NewObjects(Val(mk.cell), 0)
              r == CreateAll(st, StackRequests(cell, top), reuse, 1)
          IN IF r.res.err # "none"
             THEN [res |-> r.res, st |-> r.st, cell |-> None, ret |-> <<>>]
             ELSE [res |-> Ok, st |-> r.st, cell |-> Some(<<cell>>),
                   ret |-> [outputs |-> RnnOutputs(m, "cell"),
                            state |-> <<RnnState(cell, "cell")>>]]

(***************************************************************************)
(* Dispatch on the class of the instance                                   *)
(***************************************************************************)
\* a template that opens its scope afresh on every call
TemplateNeverReuses(m) == FALSE

\* self._template(*args): variables are reused once they were created
TemplateReuse(m) == m.variables_created

\* self._build through the template
Build(m, st, dtype) ==
  CASE m.cls = "Embeddding" ->
         [cell |-> None, ret |-> <<>>]
           @@ EmbedddingBuild(m, st, TemplateReuse(m))
    [] m.cls = "TFHubElmoEmbedding" ->
         [cell |-> None, ret |-> <<>>]
           @@ TFHubElmoEmbeddingBuild(m, st, TemplateReuse(m), dtype)
    [] m.cls = "CachedElmoModule" ->
         [cell |-> None, ret |-> <<>>]
           @@ CachedElmoModuleBuild(m, st, TemplateReuse(m))
    [] m.cls = "LstmEncoder" -> LstmEncoderBuild(m, st, TemplateReuse(m))

\* self._clone(name=name)
CloneOf(m, name, used) ==
  CASE m.cls = "Embeddding" -> EmbedddingClone(m, name, used)
    [] m.cls = "TFHubElmoEmbedding" -> TFHubElmoEmbeddingClone(m, name, used)
    [] m.cls = "CachedElmoModule" -> CachedElmoModuleClone(m, name, used)
    [] m.cls = "LstmEncoder" -> LstmEncoderClone(m, name, used)

\* AbstractModule.clone: the name requested when none is given
DefaultCloneName(m) == NameStr(m.unique_name \o <<"_clone">>)

(***************************************************************************)
(* Inputs                                                                  *)
(***************************************************************************)
Names == {<<"embed">>}

CloneNames == {<<"embed">>, <<"enc">>}

NameArgs == {NameStr(n) : n \in Names}

OptNameArgs == {None} \cup {Some(NameStr(n)) : n \in CloneNames}

Collections == {"trainable", "global"}

DTypes == {"string", "int32"}

EmbedArgs ==
  [vocab_size : {Some(3)}, embed_dim : {Some(2)},
   existing_vocab : {None}, trainable : BOOLEAN, name : NameArgs]
  \cup [vocab_size : {None}, embed_dim : {None},
        existing_vocab : {Some(<<2, 3>>)}, trainable : {TRUE},
        name : NameArgs]

EncoderArgs ==
  [unit_type : {"lstm"}, num_units : {4}, num_layers : {2},
   dropout_rate : {None}, num_residual_layers : {0},
   scope : {<<"rnn">>}, is_training : {TRUE}, bidirectional : BOOLEAN,
   cell_wrapper : {"None"}, name : NameArgs]

CachedArgs == [trainable : {TRUE}, num_elements : {3}, name : NameArgs]

(***************************************************************************)
(* The state machine                                                       *)
(***************************************************************************)
NoOp == [op |-> "none", m |-> 0, res |-> Ok, first |-> FALSE, ret |-> <<>>,
         args |-> <<>>]

Init ==
  /\ modules = <<>>
  /\ store = <<>>
  /\ usedScopes = {}
  /\ clones = {}
  /\ last = NoOp

\* the effect of running a constructor whose outcome is r
Construct(op, args, r) ==
  /\ usedScopes' = r.used
  /\ modules' = IF r.res.err = "none" THEN Append(modules, r.mod)
                ELSE modules
  /\ last' = [op |-> op,
              m |-> IF r.res.err = "none" THEN Len(modules) + 1 ELSE 0,
              res |-> r.res, first |-> FALSE, ret |-> <<>>, args |-> args]
  /\ UNCHANGED <<store, clones>>

Room == Len(modules) < MaxModules /\ Cardinality(usedScopes) < MaxScopes

NewEmbeddding ==
  /\ Room
  /\ \E a \in EmbedArgs :
       Construct("Embeddding", a,
                 EmbedddingInit(a.vocab_size, a.embed_dim, a.existing_vocab,
                                a.trainable, a.name, usedScopes))

NewTFHubElmoEmbedding ==
  /\ Room
  /\ \E t \in {FALSE}, n \in NameArgs :
       Construct("TFHubElmoEmbedding", [trainable |-> t, name |-> n],
                 TFHubElmoEmbeddingInit(t, n, usedScopes))

NewLstmEncoder ==
  /\ Room
  /\ \E a \in EncoderArgs :
       Construct("LstmEncoder", a,
                 LstmEncoderInit(a.unit_type, a.num_units, a.num_layers,
                                 a.dropout_rate, a.num_residual_layers,
                                 a.scope, a.is_training, a.bidirectional,
                                 a.name, a.cell_wrapper, usedScopes))

NewCachedElmoModule ==
  /\ Room
  /\ \E a \in CachedArgs :
       Construct("CachedElmoModule", a,
                 CachedElmoModuleInit(a.name, a.trainable, a.num_elements,
                                      usedScopes))

\* a subclass whose __init__ does not call AbstractModule.__init__
NewWithoutSuper ==
  /\ Room
  /\ Construct("Subclass", <<>>,
               [res |-> Ok, mod |-> Bare("Subclass"), used |-> usedScopes])

\* AbstractModule.__call__
Call ==
  \E i \in 1..Len(modules), dtype \in DTypes :
    LET m == modules[i]
        chk == CheckInitCalled(m)
    IN /\ (m.cls # "TFHubElmoEmbedding" => dtype = "string")
       /\ IF chk.err # "none"
          THEN /\ last' = [op |-> "call", m |-> i, res |-> chk,
                           first |-> FALSE, ret |-> <<>>, args |-> <<>>]
               /\ UNCHANGED <<modules, store>>
          ELSE LET r == Build(m, store, dtype)
               IN /\ store' = r.st
                  /\ modules' =
                       IF r.res.err = "none"
                       THEN [modules EXCEPT ![i].variables_created = TRUE,
                                            ![i].cell = r.cell]
                       ELSE modules
                  /\ last' = [op |-> "call", m |-> i, res |-> r.res,
                              first |-> ~m.variables_created, ret |-> r.ret,
                              args |-> <<>>]
       /\ UNCHANGED <<usedScopes, clones>>

\* AbstractModule.clone(name)
Clone ==
  /\ Room
  /\ \E i \in 1..Len(modules), name \in OptNameArgs :
       LET m == modules[i]
           n == IF IsNone(name) THEN DefaultCloneName(m) ELSE Val(name)
           r == CloneOf(m, n, usedScopes)
       IN /\ m.init_called
          /\ usedScopes' = r.used
          /\ modules' = IF r.res.err = "none" THEN Append(modules, r.mod)
                        ELSE modules
          /\ clones' = IF r.res.err = "none"
                       THEN clones \cup {<<i, Len(modules) + 1>>}
                       ELSE clones
          /\ last' = [op |-> "clone", m |-> i, res |-> r.res,
                      first |-> FALSE,
                      ret |-> IF r.res.err = "none"
                              THEN <<Len(modules) + 1>> ELSE <<>>,
                      args |-> [given |-> name, requested |-> n]]
          /\ UNCHANGED store

\* AbstractModule.get_variables(collection)
GetVariables ==
  \E i \in 1..Len(modules), c \in Collections :
    LET m == modules[i]
    IN /\ last' = IF m.init_called
                  THEN [op |-> "get_variables", m |-> i, res |-> Ok,
                        first |-> FALSE,
                        ret |-> get_variables_in_scope(store, m, c),
                        args |-> c]
                  \* self._template is not set
                  ELSE [op |-> "get_variables", m |-> i,
                        res |-> Raise("AttributeError", "_template"),
                        first |-> FALSE, ret |-> <<>>, args |-> c]
       /\ UNCHANGED <<modules, store, usedScopes, clones>>

\* the properties variable_scope and scope_name
ScopeName ==
  \E i \in 1..Len(modules), q \in {"variable_scope", "scope_name"} :
    LET m == modules[i]
    IN /\ last' = IF m.init_called
                  THEN [op |-> q, m |-> i, res |-> Ok, first |-> FALSE,
                        ret |-> m.scope, args |-> <<>>]
                  ELSE [op |-> q, m |-> i,
                        res |-> Raise("AttributeError", "_template"),
                        first |-> FALSE, ret |-> <<>>, args |-> <<>>]
       /\ UNCHANGED <<modules, store, usedScopes, clones>>

Next ==
  \/ NewEmbeddding
  \/ NewTFHubElmoEmbedding
  \/ NewLstmEncoder
  \/ NewCachedElmoModule
  \/ NewWithoutSuper
  \/ Call
  \/ Clone
  \/ GetVariables
  \/ ScopeName

Spec == Init /\ [][Next]_vars

(***************************************************************************)
(* The Embeddding constructor over all its argument shapes: one instance   *)
(* is constructed from any arguments, then called and cloned.              *)
(***************************************************************************)
VocabSizes == {None, Some(-1), Some(0), Some(1), Some(16), Some(10000)}

EmbedDims == {None, Some(0), Some(2)}

ExistingVocabs == {None, Some(<<2, 3>>), Some(<<3>>), Some(<<0, 3>>)}

AnyNameArgs == NameArgs \cup {NameNone, NameOther}

AllEmbedArgs ==
  [vocab_size : VocabSizes, embed_dim : EmbedDims,
   existing_vocab : ExistingVocabs, trainable : BOOLEAN, name : AnyNameArgs]

TryEmbeddding ==
  /\ Len(modules) = 0
  /\ Cardinality(usedScopes) < MaxScopes
  /\ \E a \in AllEmbedArgs :
       Construct("Embeddding", a,
                 EmbedddingInit(a.vocab_size, a.embed_dim, a.existing_vocab,
                                a.trainable, a.name, usedScopes))

NextEmbed ==
  \/ TryEmbeddding
  \/ Call
  \/ Clone

SpecEmbed == Init /\ [][NextEmbed]_vars

(***************************************************************************)
(* The recurrent encoder over all its settings: one encoder is             *)
(* constructed from any settings and then called.                          *)
(***************************************************************************)
UnitTypes == {"lstm", "gru", "layer_norm_lstm", "classical_lstm", "bogus"}

DropoutRates == {None, Some(0), Some(3)}

CellWrappers == {"None", "callable", "value", "empty"}

AllEncoderArgs ==
  [unit_type : UnitTypes, num_units : {4}, num_layers : 0..MaxLayers,
   dropout_rate : DropoutRates, num_residual_layers : 0..MaxResidual,
   scope : {<<"rnn">>}, is_training : BOOLEAN, bidirectional : BOOLEAN,
   cell_wrapper : CellWrappers, name : NameArgs]

TryLstmEncoder ==
  /\ Len(modules) = 0
  /\ \E a \in AllEncoderArgs :
       Construct("LstmEncoder", a,
                 LstmEncoderInit(a.unit_type, a.num_units, a.num_layers,
                                 a.dropout_rate, a.num_residual_layers,
                                 a.scope, a.is_training, a.bidirectional,
                                 a.name, a.cell_wrapper, usedScopes))

NextCells ==
  \/ TryLstmEncoder
  \/ Call

SpecCells == Init /\ [][NextCells]_vars

(***************************************************************************)
(* AbstractModule.__init__ over all shapes of its name argument: modules   *)
(* are constructed with no name, a non-string, the empty string or a       *)
(* string, or by a positional call, and then called and queried.           *)
(***************************************************************************)
WideNameArgs == AnyNameArgs \cup {NameStr(<<>>)}

\* a constructor that hands its name to AbstractModule.__init__(name=name)
TryNamed ==
  /\ Room
  /\ \E n \in WideNameArgs :
       \/ Construct("CachedElmoModule", [name |-> n, positional |-> FALSE],
                    CachedElmoModuleInit(n, TRUE, 3, usedScopes))
       \/ Construct("TFHubElmoEmbedding", [name |-> n, positional |-> FALSE],
                    TFHubElmoEmbeddingInit(FALSE, n, usedScopes))

\* a subclass calling AbstractModule.__init__(self, name) without keyword:
\* the value lands in _sentinel
InitPositional ==
  /\ Room
  /\ \E n \in WideNameArgs :
       Construct("AbstractModule", [name |-> n, positional |-> TRUE],
                 AbstractModuleInit("Subclass", Some(n), NameNone,
                                    usedScopes))

NextNames ==
  \/ TryNamed
  \/ InitPositional
  \/ Call
  \/ GetVariables

SpecNames == Init /\ [][NextNames]_vars

(***************************************************************************)
(* Properties                                                              *)
(***************************************************************************)
\* the parameters of module m: those created in its scope or below it
Owned(m) == get_variables_in_scope(store, m, "global")

OwnedNames(m) == {Owned(m)[k].name : k \in 1..Len(Owned(m))}

\* the number of parameters the build of m creates
ExpectedParams(m) ==
  CASE m.cls \in {"Embeddding", "CachedElmoModule"} -> 1
    [] m.cls = "LstmEncoder" ->
         2 * m.hp.num_layers * (IF m.hp.bidirectional THEN 2 ELSE 1)
    [] OTHER -> 0

C1_State ==
  /\ \A j, k \in 1..Len(store) : j # k => store[j].name # store[k].name
  /\ \A i \in 1..Len(modules) :
       modules[i].init_called =>
         Len(Owned(modules[i])) =
           IF modules[i].variables_created THEN ExpectedParams(modules[i])
           ELSE 0

C1_Step ==
  (/\ last'.op = "call"
   /\ last'.m \in 1..Len(modules)
   /\ modules[last'.m].variables_created)
  => /\ store' = store
     /\ modules'[last'.m].scope = modules[last'.m].scope
     /\ last'.res.msg \notin {"variable_exists", "variable_missing"}

\* C1: a module's parameters are created exactly once, by its first
\* invocation: before it the module owns none, after it it owns the ones its
\* build creates, no variable name is defined twice, and every later
\* invocation re-enters the same scope, resolves to the existing parameters
\* and leaves the store unchanged.
C1_CreatedOnce == [](C1_State) /\ [][C1_Step]_vars

C1_Witness ==
  /\ last.op = "call"
  /\ ~last.first
  /\ last.res.err = "none"
  /\ modules[last.m].cls \in {"Embeddding", "LstmEncoder"}
  /\ Len(Owned(modules[last.m])) > 0

ScopesDisjoint(a, b) ==
  /\ a.scope # b.scope
  /\ ~IsPrefix(a.scope \o Slash, b.scope \o Slash)
  /\ ~IsPrefix(b.scope \o Slash, a.scope \o Slash)

\* C2: every clone has the constructor hyperparameters of its original
\* (for LstmEncoder the rnn scope argument among them) and a parameter scope
\* disjoint from the original's.
C2_CloneKeepsHyperparameters ==
  \A p \in clones :
    /\ modules[p[2]].cls = modules[p[1]].cls
    /\ modules[p[2]].hp = modules[p[1]].hp
    /\ ScopesDisjoint(modules[p[1]], modules[p[2]])

\* C3: clone never raises on a constructed module and returns a new,
\* unbuilt module; without a name the requested name is module_name followed
\* by "_clone"; no parameter belongs to two modules.
C3_CloneReturnsFreshModule ==
  /\ last.op = "clone" =>
       /\ last.res.err = "none"
       /\ ~modules[Val(last.ret)].variables_created
       /\ Owned(modules[Val(last.ret)]) = <<>>
  /\ (last.op = "clone" /\ IsNone(last.args.given)) =>
       last.args.requested
         = NameStr(modules[last.m].unique_name \o <<"_clone">>)
  /\ \A i, j \in 1..Len(modules) :
       (i # j /\ modules[i].init_called /\ modules[j].init_called)
         => OwnedNames(modules[i]) \cap OwnedNames(modules[j]) = {}

C4_Conflict(a) ==
  \/ ~IsNone(a.vocab_size) /\ ~IsNone(a.existing_vocab)
  \/ IsNone(a.vocab_size) /\ IsNone(a.existing_vocab)
  \/ ~IsNone(a.existing_vocab) /\ ~IsNone(a.embed_dim)

C4_Step ==
  (last'.op = "Embeddding" /\ C4_Conflict(last'.args))
  => /\ last'.res.err = "ValueError"
     /\ last'.m = 0
     /\ usedScopes' = usedScopes
     /\ modules' = modules

\* C4: the Embeddding constructor raises ValueError when both vocab_size and
\* existing_vocab are given, when neither is given, and when existing_vocab
\* comes with embed_dim; it does so before the base initializer runs: no
\* scope is reserved and no module exists.
C4_ConflictingArgumentsFail == [][C4_Step]_vars

C4_Witness ==
  /\ last.op = "Embeddding"
  /\ ~IsNone(last.args.vocab_size)
  /\ ~IsNone(last.args.existing_vocab)
  /\ last.res = Raise("ValueError", "existing_vocab_mixed")
  /\ usedScopes = {}

OnlyVocabSize(a) ==
  /\ a.name.k = "str"
  /\ ~IsNone(a.vocab_size)
  /\ Val(a.vocab_size) > 0
  /\ IsNone(a.embed_dim)
  /\ IsNone(a.existing_vocab)

\* C5: an Embeddding given only a positive vocab_size is constructed with
\* embed_dim = round(6 * vocab_size^0.25) and the vocab_size given; for
\* vocab_size = 10000 the embed_dim is 60.
C5_DefaultEmbedDim ==
  (last.op = "Embeddding" /\ OnlyVocabSize(last.args))
  => /\ last.res.err = "none"
     /\ modules[last.m].hp.vocab_size = last.args.vocab_size
     /\ modules[last.m].hp.embed_dim =
          Some(RoundSixFourthRoot(Val(last.args.vocab_size)))
     /\ (Val(last.args.vocab_size) = 10000
           => modules[last.m].hp.embed_dim = Some(60))

NonPositiveVocab(a) == ~IsNone(a.vocab_size) /\ Val(a.vocab_size) <= 0

NoNonPositiveModule ==
  \A i \in 1..Len(modules) :
    (modules[i].cls = "Embeddding" /\ modules[i].init_called)
      => Val(modules[i].hp.vocab_size) > 0

HasResidual(c) ==
  \E k \in 1..Len(c.wrappers) : c.wrappers[k].w = "ResidualWrapper"

\* the cell stacks of the built encoders
BuiltStacks ==
  {<<i, s>> \in (1..Len(modules)) \X (1..2) :
     /\ modules[i].cls = "LstmEncoder"
     /\ ~IsNone(modules[i].cell)
     /\ s <= Len(Val(modules[i].cell))}

StackOf(p) == Val(modules[p[1]].cell)[p[2]]

\* C7: every stack the cell factory builds has exactly num_layers cells, and
\* the cell at 0-based index i has a residual wrapper iff
\* i >= num_layers - num_residual_layers; for 4 layers and 2 residual layers
\* these are exactly the indices 2 and 3.
C7_ResidualLayers ==
  \A p \in BuiltStacks :
    LET hp == modules[p[1]].hp
        cells == StackOf(p).cells
    IN /\ Len(cells) = hp.num_layers
       /\ \A j \in 1..Len(cells) :
            HasResidual(cells[j])
              <=> (j - 1 >= hp.num_layers - hp.num_residual_layers)
       /\ (hp.num_layers = 4 /\ hp.num_residual_layers = 2)
            => {j - 1 : j \in {k \in 1..Len(cells) : HasResidual(cells[k])}}
                 = {2, 3}

C7_Witness ==
  \E p \in BuiltStacks :
    /\ modules[p[1]].hp.num_layers = 4
    /\ modules[p[1]].hp.num_residual_layers = 2
    /\ HasResidual(StackOf(p).cells[3])
    /\ HasResidual(StackOf(p).cells[4])
    /\ ~HasResidual(StackOf(p).cells[1])
    /\ ~HasResidual(StackOf(p).cells[2])

\* C8: when dropout_rate is not None every cell of every stack carries a
\* dropout wrapper whose input keep probability is 1.0 outside training and
\* 1.0 - dropout_rate in training, and the dropout wrapper is inside any
\* residual wrapper.
C8_EffectiveDropout ==
  \A p \in BuiltStacks :
    LET hp == modules[p[1]].hp
        cells == StackOf(p).cells
    IN ~IsNone(hp.dropout_rate) =>
         \A j \in 1..Len(cells) :
           /\ Len(cells[j].wrappers) >= 1
           /\ cells[j].wrappers[1].w = "DropoutWrapper"
           /\ cells[j].wrappers[1].input_keep_prob =
                IF hp.is_training THEN One - Val(hp.dropout_rate) ELSE One
           /\ \A k \in 1..Len(cells[j].wrappers) :
                cells[j].wrappers[k].w = "ResidualWrapper" => k = 2

C8_Witness ==
  \E p \in BuiltStacks :
    /\ ~modules[p[1]].hp.is_training
    /\ modules[p[1]].hp.dropout_rate = Some(3)
    /\ modules[p[1]].hp.bidirectional
    /\ p[2] = 2
    /\ modules[p[1]].hp.num_residual_layers > 0
    /\ Len(StackOf(p).cells) >= 1
    /\ StackOf(p).cells[Len(StackOf(p).cells)].wrappers
         = <<[w |-> "DropoutWrapper", input_keep_prob |-> One],
             [w |-> "ResidualWrapper", input_keep_prob |-> One]>>

KnownUnits == {"lstm", "gru", "layer_norm_lstm", "classical_lstm"}

UnknownUnitFails(i) ==
  /\ IsNone(modules[i].cell)
  /\ ~modules[i].variables_created
  /\ (last.op = "call" /\ last.m = i)
       => last.res = Raise("ValueError", "unknown_unit_type")

\* C9 as stated: an encoder with an unknown unit type fails every build with
\* the ValueError "Unknown unit type", for every layer count and setting,
\* and never gets a cell stack.
C9_UnknownUnitAlwaysFails ==
  \A i \in 1..Len(modules) :
    (modules[i].cls = "LstmEncoder"
       /\ modules[i].hp.unit_type \notin KnownUnits)
      => UnknownUnitFails(i)

\* C9 amended: an encoder with an unknown unit type and at least one layer
\* fails every build with the ValueError "Unknown unit type", for every
\* other setting, and never gets a cell stack.
C9_UnknownUnitFailsWithLayers ==
  \A i \in 1..Len(modules) :
    (modules[i].cls = "LstmEncoder"
       /\ modules[i].hp.unit_type \notin KnownUnits
       /\ modules[i].hp.num_layers >= 1)
      => UnknownUnitFails(i)

C9_Witness ==
  /\ last.op = "call"
  /\ modules[last.m].hp.unit_type = "bogus"
  /\ modules[last.m].hp.num_layers >= 1
  /\ modules[last.m].hp.encoder_kargs.cell_wrapper = "callable"
  /\ last.res = Raise("ValueError", "unknown_unit_type")

\* C10: on an instance on which AbstractModule.__init__ has not run, a call
\* and the queries get_variables, variable_scope and scope_name all fail with
\* NotImplementedError, and the failed use creates no parameter.
C10_UseBeforeInit ==
  (/\ last.op \in {"call", "get_variables", "variable_scope", "scope_name"}
   /\ last.m \in 1..Len(modules)
   /\ ~modules[last.m].init_called)
  => /\ last.res.err = "NotImplementedError"
     /\ ~modules[last.m].variables_created

\* the "/"-separated components of a name, cur being the component read
RECURSIVE SplitFrom(_, _, _)
SplitFrom(s, k, cur) ==
  IF k > Len(s) THEN (IF cur = <<>> THEN <<>> ELSE <<cur>>)
  ELSE IF s[k] = "/" THEN <<cur>> \o SplitFrom(s, k + 1, <<>>)
  ELSE SplitFrom(s, k + 1, Append(cur, s[k]))

Components(s) == SplitFrom(s, 1, <<>>)

\* the scope path of a variable: its components but the last
ScopePath(v) == SubSeq(Components(v.name), 1, Len(Components(v.name)) - 1)

\* the variable lives in the scope of m or in a scope nested under it
InScopeOf(v, m) == IsPrefix(Components(m.scope), ScopePath(v))

InCollection(v, c) == c = "trainable" => v.trainable

\* the scope name of a is a proper string prefix of that of b, and nothing
\* more: b is not nested under a
MerePrefix(a, b) ==
  /\ a.scope # b.scope
  /\ IsPrefix(a.scope, b.scope)
  /\ ~IsPrefix(Components(a.scope), Components(b.scope))

NameAccepted ==
  /\ last.op \in {"CachedElmoModule", "TFHubElmoEmbedding", "AbstractModule"}
  /\ last.res.err = "none"

\* C12: AbstractModule.__init__ accepts a name only if it is a non-empty
\* string or None, for None it takes the name from the class name, a
\* non-string name raises TypeError, a positional call raises ValueError, and
\* no two initialized instances have the same scope.
C12_NameValidated ==
  /\ NameAccepted =>
       /\ ~last.args.positional
       /\ \/ last.args.name.k = "None"
          \/ last.args.name.k = "str" /\ last.args.name.s # <<>>
       /\ last.args.name.k = "None"
            => modules[last.m].original_name = ClassNameUpper(last.op)
  /\ (last.op \in {"CachedElmoModule", "TFHubElmoEmbedding"}
        /\ last.args.name.k = "int")
       => last.res = Raise("TypeError", "name_not_string")
  /\ last.op = "AbstractModule"
       => last.res = Raise("ValueError", "named_arguments")
  /\ \A i, j \in 1..Len(modules) :
       (i # j /\ modules[i].init_called /\ modules[j].init_called)
         => modules[i].scope # modules[j].scope

IdsOf(stack) == {stack.ids[j] : j \in 1..Len(stack.ids)}

\* the variables of m that live under the scope of one direction
Under(m, dir) ==
  SelectSeq(Owned(m),
            LAMBDA v : IsPrefix(Components(m.scope)
                                  \o <<m.hp.encoder_scope, <<dir>>>>,
                                ScopePath(v)))

C13_Stacks(m) ==
  LET stacks == Val(m.cell)
  IN IF m.hp.bidirectional
     THEN /\ Len(stacks) = 2
          /\ stacks[1].kind = stacks[2].kind
          /\ stacks[1].cells = stacks[2].cells
          /\ Len(stacks[1].cells) = m.hp.num_layers
          /\ IdsOf(stacks[1]) \cap IdsOf(stacks[2]) = {}
          /\ Len(Under(m, "fw")) = 2 * m.hp.num_layers
          /\ Len(Under(m, "bw")) = 2 * m.hp.num_layers
          /\ Len(Owned(m)) = 4 * m.hp.num_layers
     ELSE /\ Len(stacks) = 1
          /\ Len(stacks[1].cells) = m.hp.num_layers
          /\ Len(Owned(m)) = 2 * m.hp.num_layers

C13_Returned(m, ret) ==
  IF m.hp.bidirectional
  THEN /\ ret.outputs.parts = <<"fw", "bw">>
       /\ ret.outputs.shape = <<BatchSize, MaxTime, 2 * m.hp.num_units>>
       /\ Len(ret.state) = 2
       /\ ret.state[1] = [dir |-> "fw", ids |-> Val(m.cell)[1].ids]
       /\ ret.state[2] = [dir |-> "bw", ids |-> Val(m.cell)[2].ids]
  ELSE /\ ret.outputs.parts = <<"cell">>
       /\ ret.outputs.shape = <<BatchSize, MaxTime, m.hp.num_units>>
       /\ Len(ret.state) = 1
       /\ ret.state[1] = [dir |-> "cell", ids |-> Val(m.cell)[1].ids]

\* C13: a bidirectional encoder builds two stacks of the same configuration
\* that share no cell object and no variable, returns the forward and
\* backward outputs concatenated along the feature axis and both final
\* states; a unidirectional one builds one stack and returns its outputs and
\* its single final state.
C13_BidirectionalStacks ==
  /\ \A i \in 1..Len(modules) :
       (modules[i].cls = "LstmEncoder" /\ ~IsNone(modules[i].cell))
         => C13_Stacks(modules[i])
  /\ (/\ last.op = "call"
      /\ last.res.err = "none"
      /\ modules[last.m].cls = "LstmEncoder")
       => C13_Returned(modules[last.m], last.ret)

C13_Witness ==
  /\ last.op = "call"
  /\ last.res.err = "none"
  /\ ~last.first
  /\ modules[last.m].cls = "LstmEncoder"
  /\ modules[last.m].hp.bidirectional
  /\ modules[last.m].hp.num_layers = 2
  /\ Len(last.ret.state) = 2
  /\ IdsOf(Val(modules[last.m].cell)[2]) = {3, 4}

\* the cell list of the module's settings, as create_rnn_cell is handed it
CellListOf(m) ==
  _cell_list(m.hp.unit_type, m.hp.num_units, m.hp.num_layers,
             IF m.hp.is_training THEN "train" ELSE "inference",
             m.hp.dropout_rate, m.hp.num_residual_layers)

\* a wrapper that is supplied and is not callable
NonCallableWrapper(m) ==
  m.hp.encoder_kargs.cell_wrapper \in {"value", "empty"}

\* C14: create_rnn_cell with a supplied, non-callable cell_wrapper raises
\* TypeError and returns no cell, whatever the wrapper value; without a
\* wrapper one layer gives the single cell itself and two or more layers
\* give one MultiRNNCell over the cell list in index order.
C14_WrapperChecked ==
  (/\ last.op = "call"
   /\ modules[last.m].cls = "LstmEncoder"
   /\ CellListOf(modules[last.m]).res.err = "none")
    => LET m == modules[last.m]
           cl == CellListOf(m)
       IN /\ NonCallableWrapper(m)
               => /\ last.res = Raise("TypeError", "cell_wrapper")
                  /\ IsNone(m.cell)
          /\ (m.hp.encoder_kargs.cell_wrapper = "None" /\ Len(cl.cells) = 1)
               => /\ last.res.err = "none"
                  /\ \A s \in 1..Len(Val(m.cell)) :
                       /\ Val(m.cell)[s].kind = "cell"
                       /\ Val(m.cell)[s].cells = cl.cells
          /\ (m.hp.encoder_kargs.cell_wrapper = "None" /\ Len(cl.cells) >= 2)
               => /\ last.res.err = "none"
                  /\ \A s \in 1..Len(Val(m.cell)) :
                       /\ Val(m.cell)[s].kind = "MultiRNNCell"
                       /\ Val(m.cell)[s].cells = cl.cells

====
